---- MODULE Spec2Model ----
(***************************************************************************)
(* A model of the entity wrappers of the Kuzzle JavaScript SDK:            *)
(*   - KuzzleDataCollection (src/unnamed/part_001), the per-collection     *)
(*     wrapper that builds a request, attaches the collection's headers    *)
(*     and forwards it to the session's query dispatcher (kuzzle.query);   *)
(*   - Profile (src/src/core/security/Profile.ts).                         *)
(* The session object (Kuzzle: query, addHeaders, setHeaders,              *)
(* callbackRequired) and KuzzleRoom are not part of the source files; the  *)
(* definitions that stand for them say so.                                 *)
(***************************************************************************)
EXTENDS Integers, Sequences, FiniteSets, TLC

\* Values of the model.
Undefined == "undefined"
Null == "null"
CollIds == {"a", "b"}                  \* the collection objects, one per collection name
Callers == {"u1", "u2"}                \* the callers; each has one request operation under way at a time
HeaderKeys == {"h", "k"}
HeaderValues == {"1", "2"}
Error == "E"                           \* the error of an error answer
Result == "R"                          \* the result of a successful answer
NoCb == "none"                         \* no callback supplied

\* A headers object: each key is either undefined or holds a value.
Headers == [HeaderKeys -> HeaderValues \cup {Undefined}]
EmptyHeaders == [key \in HeaderKeys |-> Undefined]

VARIABLES
  kuzzle,        \* the session: [headers |-> the object its headers field refers to]
  heap,          \* object id -> contents of that headers object
  collections,   \* CollIds -> the fields of the collection object (NotBuilt before construction)
  calls,         \* caller -> the request operation it called last (Idle before the first)
  pending,       \* caller -> the requests of that call the dispatcher holds, unanswered
  answered,      \* caller -> the answered requests of that call: the response callback,
                 \* the outcome and the invocations of the caller's callback it led to
  rooms,         \* the KuzzleRoom objects made by subscribe, in order
  subscriptions, \* the network subscribe calls issued so far, in order
  delivered,     \* the rooms whose handler the last notification invoked
  profile,       \* the fields of the Profile object
  mGetRoles,     \* the calls of kuzzle.security.mGetRoles the last getRoles made: their roleIds
  returned       \* what the last call of getRoles returned, and the policies it found

roomVars == <<rooms, subscriptions, delivered>>
profileVars == <<profile, mGetRoles, returned>>
vars == <<kuzzle, heap, collections, calls, pending, answered, roomVars, profileVars>>

----------------------------------------------------------------------------
\* JSON.stringify of a headers object: its defined keys with their values.
\* Both keys are listed in a fixed order.
JSONstringify(obj) ==
  LET pair(key) == IF obj[key] = Undefined THEN <<>> ELSE << <<key, obj[key]>> >>
  IN  pair("h") \o pair("k")

\* JSON.parse of such a text: a new object holding the listed keys.
JSONparse(text) ==
  [key \in HeaderKeys |->
     IF \E i \in 1..Len(text) : text[i][1] = key
     THEN (CHOOSE v \in HeaderValues : \E i \in 1..Len(text) : text[i] = <<key, v>>)
     ELSE Undefined]

\* A collection object that is not constructed yet, and the test for one that is.
NotBuilt == [collection |-> Undefined, kuzzle |-> Undefined, headers |-> Undefined]
built(c) == collections[c].kuzzle # Undefined

\* A faulty variant for C6: the collection shares the session's headers object.
constructHeadersShared(c) ==
  [ref |-> kuzzle.headers, heap |-> heap]

\* The headers property of a new collection: a new object, the JSON copy of
\* the session's headers.
constructHeaders(c) ==
  [ref |-> c,
   heap |-> [heap EXCEPT ![c] = JSONparse(JSONstringify(heap[kuzzle.headers]))]]

\* new KuzzleDataCollection(kuzzle, collection)
KuzzleDataCollection(c, collection) ==
  /\ ~built(c)
  /\ LET h == constructHeaders(c)
     IN  /\ collections' = [collections EXCEPT ![c] =
                              [collection |-> collection, kuzzle |-> "kuzzle", headers |-> h.ref]]
         /\ heap' = h.heap
  /\ UNCHANGED <<kuzzle, calls, pending, answered, roomVars, profileVars>>

\* The contents of the headers of collection c.
headersOf(c) == heap[collections[c].headers]


\* Kuzzle.setHeaders applied to the object self (kuzzle.setHeaders.call(this, ...)):
\* with replace, the headers field is made the content object itself;
\* otherwise every key of content is written into the current headers object.
kuzzleSetHeaders(ref, c, content, replace) ==
  IF replace
  THEN [ref |-> c, heap |-> [heap EXCEPT ![c] = content]]
  ELSE [ref |-> ref,
        heap |-> [heap EXCEPT ![ref] =
                    [key \in HeaderKeys |->
                       IF content[key] # Undefined THEN content[key] ELSE heap[ref][key]]]]

\* KuzzleDataCollection.prototype.setHeaders(content, replace)
setHeaders(c, content, replace) ==
  /\ built(c)
  /\ LET h == kuzzleSetHeaders(collections[c].headers, c, content, replace)
     IN  /\ collections' = [collections EXCEPT ![c].headers = h.ref]
         /\ heap' = h.heap
  /\ UNCHANGED <<kuzzle, calls, pending, answered, roomVars, profileVars>>

----------------------------------------------------------------------------
\* The arguments (options, cb) of an operation: each is absent, an options
\* object or a function. The operations start by moving a function given in
\* the place of options to cb.
Absent == "absent"
Fn == "function"
Obj == "object"
ArgForms == {<<Absent, Absent>>, <<Fn, Absent>>, <<Obj, Fn>>, <<Obj, Absent>>}

normalizeArgs(options, cb) ==
  IF cb = Absent /\ options = Fn
  THEN [options |-> Null, cb |-> Fn]
  ELSE [options |-> options, cb |-> cb]

\* Kuzzle.callbackRequired(name, cb): throws unless cb is a function, so the
\* operation goes on only with a callback.
callbackRequired(cb) == cb = Fn

\* Kuzzle.addHeaders(query, headers): the request with every header added.
\* The header keys of the model are none of the request's own keys.
addHeaders(query, headers) == [query EXCEPT !.headers = headers]

\* A request object before its headers are added.
Data(id, body, persist) ==
  [id |-> id, body |-> body, persist |-> persist, headers |-> EmptyHeaders]

\* The identity of the callback caller u gives, when it gives one: every
\* caller has a callback of its own.
callerCb(u, cb) == IF cb = Fn THEN u ELSE NoCb

\* The response callbacks an operation hands to kuzzle.query.
NoCallback == [kind |-> "none", op |-> "none", cb |-> NoCb, self |-> "none", action |-> "none", id |-> Undefined]
Direct(cb) == [NoCallback EXCEPT !.kind = IF cb = NoCb THEN "none" ELSE "direct", !.cb = cb]
Wrapper(op, self, cb, action, id) ==
  [kind |-> "wrapper", op |-> op, cb |-> cb, self |-> self, action |-> action, id |-> id]

\* Kuzzle.query(collection, controller, action, query, options, cb): one
\* request handed to the dispatcher. The options are passed on untouched.
query(collection, controller, action, data, cb) ==
  [collection |-> collection, controller |-> controller,
   action |-> action, data |-> data, cb |-> cb]

\* A caller that has called nothing yet.
Idle == [op |-> "none", coll |-> "none", cb |-> NoCb]

\* The effect of one operation called by u, whose previous call has all its
\* answers: the call is recorded with the queries it made.
Called(u, op, c, cb, made) ==
  /\ pending[u] = <<>>
  /\ calls' = [calls EXCEPT ![u] = [op |-> op, coll |-> c, cb |-> cb]]
  /\ pending' = [pending EXCEPT ![u] = made]
  /\ answered' = [answered EXCEPT ![u] = <<>>]
  /\ UNCHANGED <<kuzzle, heap, collections, roomVars, profileVars>>


----------------------------------------------------------------------------
\* What a response callback does with an answer: the invocations of the
\* caller's callback, and the queries it makes in turn.
NoResult == [kind |-> "none", self |-> "none", value |-> Undefined]
Value(kind, self, value) == [kind |-> kind, self |-> self, value |-> value]
cbError(cb, error) == [cb |-> cb, nargs |-> 1, error |-> error, result |-> NoResult]
cbResult(cb, result) == [cb |-> cb, nargs |-> 2, error |-> Null, result |-> result]
Did(invoked) == [invoked |-> invoked, made |-> <<>>]

\* documentFactory(id, content): a KuzzleDocument of this collection.
documentFactory(self, id, content) == Value("KuzzleDocument", self, content)

\* advancedSearch: function (error, result) { ... }
advancedSearchResponse(cl, error, result) ==
  IF error # Null
  THEN Did(<<cbError(cl.cb, error)>>)
  ELSE Did(<<cbResult(cl.cb, Value("searchResult", cl.self, result))>>)

\* count: function (error, result) { ... }
countResponse(cl, error, result) ==
  IF error # Null
  THEN Did(<<cbError(cl.cb, error)>>)
  ELSE Did(<<cbResult(cl.cb, Value("count", "none", result))>>)

\* createDocument: function (err, res) { ... }
createDocumentResponse(cl, error, result) ==
  IF error # Null
  THEN Did(<<cbError(cl.cb, error)>>)
  ELSE Did(<<cbResult(cl.cb, documentFactory(cl.self, result, result))>>)

\* deleteDocument: function (err, res) { ... }
deleteDocumentResponse(cl, error, result) ==
  IF error # Null
  THEN Did(<<cbError(cl.cb, error)>>)
  ELSE IF cl.action = "delete"
       THEN Did(<<cbResult(cl.cb, Value("ids", "none", cl.id))>>)
       ELSE Did(<<cbResult(cl.cb, Value("ids", "none", result))>>)

\* A faulty variant for C2: cb(err) without the return that ends the callback.
fetchDocumentResponseTwice(cl, error, result) ==
  IF error # Null
  THEN Did(<<cbError(cl.cb, error), cbResult(cl.cb, documentFactory(cl.self, result, result))>>)
  ELSE Did(<<cbResult(cl.cb, documentFactory(cl.self, result, result))>>)

\* fetchDocument: function (err, res) { ... }
fetchDocumentResponse(cl, error, result) ==
  IF error # Null
  THEN Did(<<cbError(cl.cb, error)>>)
  ELSE Did(<<cbResult(cl.cb, documentFactory(cl.self, result, result))>>)

\* replaceDocument: function (err, res) { ... }
replaceDocumentResponse(cl, error, result) ==
  IF error # Null
  THEN Did(<<cbError(cl.cb, error)>>)
  ELSE Did(<<cbResult(cl.cb, documentFactory(cl.self, result, result))>>)

\* A faulty variant for C4: the callback kept in a variable the calls share,
\* so that an answer may reach the callback of another call.
sharedCb(cl) ==
  IF \E u \in Callers : calls[u].cb # NoCb /\ calls[u].cb # cl.cb
  THEN CHOOSE id \in Callers : \E u \in Callers : calls[u].cb = id /\ id # cl.cb
  ELSE cl.cb

updateDocumentResponseShared(cl, error, result) ==
  IF error # Null
  THEN Did(<<cbError(sharedCb(cl), error)>>)
  ELSE Did(<<cbResult(sharedCb(cl), Value("KuzzleDocumentId", cl.self, result))>>)

\* updateDocument: function (err, res) { ... }
updateDocumentResponse(cl, error, result) ==
  IF error # Null
  THEN Did(<<cbError(cl.cb, error)>>)
  ELSE Did(<<cbResult(cl.cb, Value("KuzzleDocumentId", cl.self, result))>>)

\* The dispatcher's call of a callback it was given as is: cb(error, result).
directResponse(cl, error, result) ==
  IF error # Null
  THEN Did(<<cbError(cl.cb, error)>>)
  ELSE Did(<<cbResult(cl.cb, Value("raw", "none", result))>>)

\* The dispatcher's call of the response callback of a request.
response(cl, error, result) ==
  CASE cl.kind = "none" -> Did(<<>>)
    [] cl.kind = "direct" -> directResponse(cl, error, result)
    [] cl.op = "advancedSearch" -> advancedSearchResponse(cl, error, result)
    [] cl.op = "count" -> countResponse(cl, error, result)
    [] cl.op = "createDocument" -> createDocumentResponse(cl, error, result)
    [] cl.op = "deleteDocument" -> deleteDocumentResponse(cl, error, result)
    [] cl.op = "fetchDocument" -> fetchDocumentResponse(cl, error, result)
    [] cl.op = "replaceDocument" -> replaceDocumentResponse(cl, error, result)
    [] cl.op = "updateDocument" -> updateDocumentResponse(cl, error, result)

\* s without its element i.
Remove(s, i) == SubSeq(s, 1, i - 1) \o SubSeq(s, i + 1, Len(s))

\* The dispatcher answers a pending request, once, with an error or a result,
\* and forgets it.
Answer(u, i, outcome) ==
  /\ i \in 1..Len(pending[u])
  /\ LET cl == pending[u][i].cb
         error == IF outcome = "error" THEN Error ELSE Null
         result == IF outcome = "error" THEN Undefined ELSE Result
         did == response(cl, error, result)
     IN  /\ pending' = [pending EXCEPT ![u] = Remove(pending[u], i) \o did.made]
         /\ answered' = [answered EXCEPT ![u] =
                           Append(answered[u], [cb |-> cl, outcome |-> outcome, invoked |-> did.invoked])]
  /\ UNCHANGED <<kuzzle, heap, collections, calls, roomVars, profileVars>>

----------------------------------------------------------------------------
\* The operations of KuzzleDataCollection. Each takes the collection object
\* it is called on and its arguments.
DocumentIds == {"d1"}
Filters == "filters"
Content == "content"
UpdateIfExist == "updateIfExist"       \* an options object {updateIfExist: true}
CreateForms == ArgForms \cup {<<UpdateIfExist, Fn>>, <<UpdateIfExist, Absent>>}
DocumentKinds == {"KuzzleDocument", "object"}

\* The body of advancedSearch, which fetchAllDocuments calls too.
advancedSearchBody(u, op, c, filters, options, cb) ==
  LET n == normalizeArgs(options, cb)
  IN  /\ callbackRequired(n.cb)
      /\ Called(u, op, c, callerCb(u, n.cb),
                <<query(collections[c].collection, "read", "search",
                        addHeaders(Data(Undefined, filters, Undefined), headersOf(c)),
                        Wrapper("advancedSearch", c, callerCb(u, n.cb), "search", Undefined))>>)

advancedSearch(u, c, options, cb) ==
  /\ built(c)
  /\ advancedSearchBody(u, "advancedSearch", c, Filters, options, cb)

count(u, c, options, cb) ==
  /\ built(c)
  /\ LET n == normalizeArgs(options, cb)
     IN  /\ callbackRequired(n.cb)
         /\ Called(u, "count", c, callerCb(u, n.cb),
                   <<query(collections[c].collection, "read", "count",
                           addHeaders(Data(Undefined, Filters, Undefined), headersOf(c)),
                           Wrapper("count", c, callerCb(u, n.cb), "count", Undefined))>>)

create(u, c, options, cb) ==
  /\ built(c)
  /\ LET n == normalizeArgs(options, cb)
     IN  Called(u, "create", c, callerCb(u, n.cb),
                <<query(collections[c].collection, "write", "createCollection",
                        addHeaders(Data(Undefined, Undefined, Undefined), headersOf(c)),
                        Direct(callerCb(u, n.cb)))>>)

\* document.toJSON() of a KuzzleDocument gives its id and body.
createDocument(u, c, document, options, cb) ==
  /\ built(c)
  /\ LET n == normalizeArgs(options, cb)
         data == IF document = "KuzzleDocument"
                 THEN Data("d1", Content, "true")
                 ELSE Data(Undefined, Content, "true")
         action == IF n.options = UpdateIfExist THEN "createOrUpdate" ELSE "create"
     IN  IF n.cb = Fn
         THEN Called(u, "createDocument", c, callerCb(u, n.cb),
                     <<query(collections[c].collection, "write", action,
                             addHeaders(data, headersOf(c)),
                             Wrapper("createDocument", c, callerCb(u, n.cb), action, data.id))>>)
         ELSE Called(u, "createDocument", c, NoCb,
                     <<query(collections[c].collection, "write", action,
                             addHeaders(data, headersOf(c)), NoCallback)>>)

delete(u, c, options, cb) ==
  /\ built(c)
  /\ LET n == normalizeArgs(options, cb)
     IN  Called(u, "delete", c, callerCb(u, n.cb),
                <<query(collections[c].collection, "admin", "deleteCollection",
                        addHeaders(Data(Undefined, Undefined, Undefined), headersOf(c)),
                        Direct(callerCb(u, n.cb)))>>)

deleteDocument(u, c, arg, options, cb) ==
  /\ built(c)
  /\ LET n == normalizeArgs(options, cb)
         action == IF arg \in DocumentIds THEN "delete" ELSE "deleteByQuery"
         data == IF arg \in DocumentIds
                 THEN Data(arg, Undefined, Undefined)
                 ELSE Data(Undefined, arg, Undefined)
     IN  IF n.cb = Fn
         THEN Called(u, "deleteDocument", c, callerCb(u, n.cb),
                     <<query(collections[c].collection, "write", action,
                             addHeaders(data, headersOf(c)),
                             Wrapper("deleteDocument", c, callerCb(u, n.cb), action, data.id))>>)
         ELSE Called(u, "deleteDocument", c, NoCb,
                     <<query(collections[c].collection, "write", action,
                             addHeaders(data, headersOf(c)), NoCallback)>>)

fetchDocument(u, c, documentId, options, cb) ==
  /\ built(c)
  /\ LET n == normalizeArgs(options, cb)
     IN  /\ callbackRequired(n.cb)
         /\ Called(u, "fetchDocument", c, callerCb(u, n.cb),
                   <<query(collections[c].collection, "read", "get",
                           addHeaders(Data(documentId, Undefined, Undefined), headersOf(c)),
                           Wrapper("fetchDocument", c, callerCb(u, n.cb), "get", documentId))>>)

fetchAllDocuments(u, c, options, cb) ==
  /\ built(c)
  /\ LET n == normalizeArgs(options, cb)
     IN  /\ callbackRequired(n.cb)
         /\ advancedSearchBody(u, "fetchAllDocuments", c, "{}", n.options, n.cb)

\* publish takes no callback: whatever follows the options is ignored.
publish(u, c, document, options, cb) ==
  /\ built(c)
  /\ LET data == IF document = "KuzzleDocument"
                 THEN Data("d1", Content, "false")
                 ELSE Data(Undefined, Content, "false")
     IN  Called(u, "publish", c, NoCb,
                <<query(collections[c].collection, "write", "create",
                        addHeaders(data, headersOf(c)), NoCallback)>>)

\* A faulty variant for C1: the else of if (cb) is missing, so that a call
\* with a callback makes a second query.
replaceDocumentTwice(u, c, documentId, content, options, cb) ==
  /\ built(c)
  /\ LET n == normalizeArgs(options, cb)
         data == Data(documentId, content, Undefined)
         plain == query(collections[c].collection, "write", "createOrUpdate",
                        addHeaders(data, headersOf(c)), NoCallback)
     IN  IF n.cb = Fn
         THEN Called(u, "replaceDocument", c, callerCb(u, n.cb),
                     <<query(collections[c].collection, "write", "createOrUpdate",
                             addHeaders(data, headersOf(c)),
                             Wrapper("replaceDocument", c, callerCb(u, n.cb), "createOrUpdate", documentId)),
                       plain>>)
         ELSE Called(u, "replaceDocument", c, NoCb, <<plain>>)

replaceDocument(u, c, documentId, content, options, cb) ==
  /\ built(c)
  /\ LET n == normalizeArgs(options, cb)
         data == Data(documentId, content, Undefined)
     IN  IF n.cb = Fn
         THEN Called(u, "replaceDocument", c, callerCb(u, n.cb),
                     <<query(collections[c].collection, "write", "createOrUpdate",
                             addHeaders(data, headersOf(c)),
                             Wrapper("replaceDocument", c, callerCb(u, n.cb), "createOrUpdate", documentId))>>)
         ELSE Called(u, "replaceDocument", c, NoCb,
                     <<query(collections[c].collection, "write", "createOrUpdate",
                             addHeaders(data, headersOf(c)), NoCallback)>>)

truncate(u, c, options, cb) ==
  /\ built(c)
  /\ LET n == normalizeArgs(options, cb)
     IN  Called(u, "truncate", c, callerCb(u, n.cb),
                <<query(collections[c].collection, "admin", "truncateCollection",
                        addHeaders(Data(Undefined, Undefined, Undefined), headersOf(c)),
                        Direct(callerCb(u, n.cb)))>>)

\* A faulty variant for C5: the response callback is handed to kuzzle.query
\* whether the caller gave a callback or not.
updateDocumentAlwaysCallback(u, c, documentId, content, options, cb) ==
  /\ built(c)
  /\ LET n == normalizeArgs(options, cb)
         data == Data(documentId, content, Undefined)
     IN  Called(u, "updateDocument", c, callerCb(u, n.cb),
                <<query(collections[c].collection, "write", "update",
                        addHeaders(data, headersOf(c)),
                        Wrapper("updateDocument", c, callerCb(u, n.cb), "update", documentId))>>)

updateDocument(u, c, documentId, content, options, cb) ==
  /\ built(c)
  /\ LET n == normalizeArgs(options, cb)
         data == Data(documentId, content, Undefined)
     IN  IF n.cb = Fn
         THEN Called(u, "updateDocument", c, callerCb(u, n.cb),
                     <<query(collections[c].collection, "write", "update",
                             addHeaders(data, headersOf(c)),
                             Wrapper("updateDocument", c, callerCb(u, n.cb), "update", documentId))>>)
         ELSE Called(u, "updateDocument", c, NoCb,
                     <<query(collections[c].collection, "write", "update",
                             addHeaders(data, headersOf(c)), NoCallback)>>)

----------------------------------------------------------------------------
\* KuzzleDataCollection.prototype.subscribe and the rooms it makes.
MaxSubscribes == 2     \* calls of subscribe in one behaviour
RoomFilters == {"f1", "f2"}

\* new KuzzleRoom(collection, options): a room of its own, not subscribed yet.
KuzzleRoom(c, options) ==
  [collection |-> collections[c].collection, subscribeToSelf |-> options,
   filters |-> Undefined, callback |-> NoCb, state |-> "NEW", sawActive |-> FALSE]

\* Whether a room with the same collection, filters and subscribe-to-self
\* option is ACTIVE.
activeRoom(collection, filters, subscribeToSelf) ==
  \E i \in 1..Len(rooms) :
    /\ rooms[i].collection = collection
    /\ rooms[i].filters = filters
    /\ rooms[i].subscribeToSelf = subscribeToSelf
    /\ rooms[i].state = "ACTIVE"

\* room.renew(filters, cb): the room takes the filters and the handler and
\* issues one network subscribe call. sawActive records whether an equal room
\* was ACTIVE at that time.
renew(room, filters, cb) ==
  [room |-> [room EXCEPT !.filters = filters, !.callback = cb, !.state = "SUBSCRIBING",
                         !.sawActive = activeRoom(room.collection, filters, room.subscribeToSelf)],
   subscribe |-> <<[collection |-> room.collection, filters |-> filters,
                    subscribeToSelf |-> room.subscribeToSelf]>>]

\* KuzzleDataCollection.prototype.subscribe(filters, cb, options)
subscribe(c, filters, cb, options) ==
  /\ built(c)
  /\ Len(rooms) < MaxSubscribes
  /\ callbackRequired(cb)
  /\ LET room == KuzzleRoom(c, options)
         renewed == renew(room, filters, Len(rooms) + 1)
     IN  /\ rooms' = Append(rooms, renewed.room)
         /\ subscriptions' = subscriptions \o renewed.subscribe
  /\ UNCHANGED <<kuzzle, heap, collections, calls, pending, answered, delivered, profileVars>>

\* The backend acknowledges the subscription of a room, which becomes ACTIVE.
Acknowledge(i) ==
  /\ i \in 1..Len(rooms)
  /\ rooms[i].state = "SUBSCRIBING"
  /\ rooms' = [rooms EXCEPT ![i].state = "ACTIVE"]
  /\ UNCHANGED <<kuzzle, heap, collections, calls, pending, answered, subscriptions, delivered, profileVars>>

\* The backend emits a notification for a subscription: the handler of every
\* ACTIVE room of that subscription runs.
Notify(collection, filters, subscribeToSelf) ==
  /\ activeRoom(collection, filters, subscribeToSelf)
  /\ delivered' = {i \in 1..Len(rooms) :
                     /\ rooms[i].collection = collection
                     /\ rooms[i].filters = filters
                     /\ rooms[i].subscribeToSelf = subscribeToSelf
                     /\ rooms[i].state = "ACTIVE"}
  /\ UNCHANGED <<kuzzle, heap, collections, calls, pending, answered, rooms, subscriptions, profileVars>>

----------------------------------------------------------------------------
\* Profile (core/security/Profile.ts).
MaxPolicies == 2       \* policies of a profile
RoleIds == {"r1", "r2"}
RateLimits == {0, 5}

\* The lists of policies of at most n elements.
PoliciesUpTo(n) == UNION {[1..m -> [roleId : RoleIds]] : m \in 0..n}

\* A property that is undefined or null, or holds a value.
Missing(default) == [defined |-> FALSE, value |-> default]
Given(value) == [defined |-> TRUE, value |-> value]

\* The content argument of the constructor: null, or an object with or
\* without rateLimit and policies.
NoContent == [isNull |-> TRUE, rateLimit |-> Missing(0), policies |-> Missing(<<>>)]
Contents ==
  {NoContent} \cup
  [isNull : {FALSE},
   rateLimit : {Missing(0)} \cup {Given(r) : r \in RateLimits},
   policies : {Missing(<<>>)} \cup {Given(p) : p \in PoliciesUpTo(MaxPolicies)}]

NoProfile == [built |-> FALSE, id |-> Null, rateLimit |-> 0, policies |-> Missing(<<>>),
              content |-> NoContent]
NotCalled == [kind |-> "none", found |-> Missing(<<>>)]

\* new Profile(kuzzle, _id, content). The content field of the model keeps
\* the argument.
Profile(id, content) ==
  /\ ~profile.built
  /\ profile' =
       [built |-> TRUE,
        id |-> id,
        rateLimit |-> IF ~content.isNull /\ content.rateLimit.defined /\ content.rateLimit.value # 0
                      THEN content.rateLimit.value ELSE 0,
        policies |-> IF ~content.isNull /\ content.policies.defined
                     THEN Given(content.policies.value) ELSE Given(<<>>),
        content |-> content]
  /\ UNCHANGED <<kuzzle, heap, collections, calls, pending, answered, roomVars, mGetRoles, returned>>

\* policies is a public field: the application may assign it.
assignPolicies(value) ==
  /\ profile.built
  /\ profile' = [profile EXCEPT !.policies = value]
  /\ UNCHANGED <<kuzzle, heap, collections, calls, pending, answered, roomVars, mGetRoles, returned>>

\* A faulty variant for C7: no test for a profile without policies.
getRolesAlways(policies) ==
  [made |-> <<[i \in 1..Len(policies.value) |-> policies.value[i].roleId]>>,
   returned |-> "mGetRoles"]

\* What getRoles does: the mGetRoles requests it makes and what it returns.
getRolesBody(policies) ==
  IF ~policies.defined \/ Len(policies.value) = 0
  THEN [made |-> <<>>, returned |-> "resolved([])"]
  ELSE [made |-> <<[i \in 1..Len(policies.value) |-> policies.value[i].roleId]>>,
        returned |-> "mGetRoles"]

\* Profile.getRoles(options). The found field of the model keeps the policies
\* the call read.
getRoles ==
  /\ profile.built
  /\ LET did == getRolesBody(profile.policies)
     IN  /\ mGetRoles' = did.made
         /\ returned' = [kind |-> did.returned, found |-> profile.policies]
  /\ UNCHANGED <<kuzzle, heap, collections, calls, pending, answered, roomVars, profile>>

----------------------------------------------------------------------------
\* The session's headers when the collections are built from it.
SessionHeaders == [h |-> Undefined, k |-> "1"]
\* The contents given to setHeaders.
SetHeadersContents == {[h |-> "2", k |-> Undefined], [h |-> Undefined, k |-> "2"]}

Init ==
  /\ kuzzle = [headers |-> "kuzzle"]
  /\ heap = [o \in CollIds \cup {"kuzzle"} |-> IF o = "kuzzle" THEN SessionHeaders ELSE EmptyHeaders]
  /\ collections = [c \in CollIds |-> NotBuilt]
  /\ calls = [u \in Callers |-> Idle]
  /\ pending = [u \in Callers |-> <<>>]
  /\ answered = [u \in Callers |-> <<>>]
  /\ rooms = <<>>
  /\ subscriptions = <<>>
  /\ delivered = {}
  /\ profile = NoProfile
  /\ mGetRoles = <<>>
  /\ returned = NotCalled

\* The request operations caller u may call, and the answers to its requests.
Requests(u) ==
  \/ \E c \in CollIds, f \in ArgForms : advancedSearch(u, c, f[1], f[2])
  \/ \E c \in CollIds, f \in ArgForms : count(u, c, f[1], f[2])
  \/ \E c \in CollIds, f \in ArgForms : create(u, c, f[1], f[2])
  \/ \E c \in CollIds, d \in DocumentKinds, f \in CreateForms : createDocument(u, c, d, f[1], f[2])
  \/ \E c \in CollIds, f \in ArgForms : delete(u, c, f[1], f[2])
  \/ \E c \in CollIds, arg \in DocumentIds \cup {Filters}, f \in ArgForms : deleteDocument(u, c, arg, f[1], f[2])
  \/ \E c \in CollIds, d \in DocumentIds, f \in ArgForms : fetchDocument(u, c, d, f[1], f[2])
  \/ \E c \in CollIds, f \in ArgForms : fetchAllDocuments(u, c, f[1], f[2])
  \/ \E c \in CollIds, d \in DocumentKinds, f \in ArgForms : publish(u, c, d, f[1], f[2])
  \/ \E c \in CollIds, d \in DocumentIds, f \in ArgForms : replaceDocument(u, c, d, Content, f[1], f[2])
  \/ \E c \in CollIds, f \in ArgForms : truncate(u, c, f[1], f[2])
  \/ \E c \in CollIds, d \in DocumentIds, f \in ArgForms : updateDocument(u, c, d, Content, f[1], f[2])
  \/ \E outcome \in {"error", "result"}, i \in {1, 2} : Answer(u, i, outcome)

\* One caller, whose calls interleave with setHeaders on the collections.
Next ==
  \/ \E c \in CollIds : KuzzleDataCollection(c, c)
  \/ \E c \in CollIds, content \in SetHeadersContents, replace \in BOOLEAN : setHeaders(c, content, replace)
  \/ Requests("u1")

Spec == Init /\ [][Next]_vars

\* Several callers with requests in flight at once, answered in any order.
NextConcurrent ==
  \/ \E c \in CollIds : KuzzleDataCollection(c, c)
  \/ \E u \in Callers : Requests(u)

SpecConcurrent == Init /\ [][NextConcurrent]_vars

\* Subscriptions on the collections.
NextSubscribe ==
  \/ \E c \in CollIds : KuzzleDataCollection(c, c)
  \/ \E c \in CollIds, filters \in RoomFilters, cb \in {Fn, Absent}, options \in BOOLEAN :
       subscribe(c, filters, cb, options)
  \/ \E i \in 1..MaxSubscribes : Acknowledge(i)
  \/ \E c \in CollIds, filters \in RoomFilters, options \in BOOLEAN : Notify(c, filters, options)

SpecSubscribe == Init /\ [][NextSubscribe]_vars

\* A profile and its roles.
NextProfile ==
  \/ \E content \in Contents : Profile("p1", content)
  \/ \E value \in {Missing(<<>>)} \cup {Given(p) : p \in PoliciesUpTo(MaxPolicies)} : assignPolicies(value)
  \/ getRoles

SpecProfile == Init /\ [][NextProfile]_vars

----------------------------------------------------------------------------
\* The properties.

\* The operations that hand kuzzle.query a response callback of their own
\* when the caller gives a callback.
CallbackOps == {"advancedSearch", "count", "fetchDocument", "createDocument",
                "deleteDocument", "replaceDocument", "updateDocument"}
\* The operations that may be called without a callback.
OptionalCallbackOps == {"createDocument", "deleteDocument", "replaceDocument", "updateDocument"}

\* C1: every request operation makes exactly one query, for the name of the
\* collection it is called on and with that collection's headers in the
\* request; no answer, error or result, makes the wrapper dispatch again.
C1_OneQueryNoRetry ==
  /\ [](\A u \in Callers :
          calls[u] # Idle => Len(pending[u]) + Len(answered[u]) = 1)
  /\ [][\A u \in Callers :
          (pending[u] = <<>> /\ pending'[u] # <<>>) =>
            \A i \in 1..Len(pending'[u]) :
              /\ pending'[u][i].collection = collections[calls'[u].coll].collection
              /\ pending'[u][i].data.headers = headersOf(calls'[u].coll)]_vars
  /\ [][\A u \in Callers :
          Len(answered'[u]) > Len(answered[u]) => pending'[u] = <<>>]_vars

\* A request made with headers of the collection's own (no longer the
\* session's) has been answered with an error, and nothing is pending.
C1_Witness ==
  \E u \in Callers :
    /\ calls[u] # Idle
    /\ pending[u] = <<>>
    /\ Len(answered[u]) = 1
    /\ answered[u][1].outcome = "error"
    /\ headersOf(calls[u].coll) # heap[kuzzle.headers]

\* The kind of result each operation passes to the caller's callback.
TransformedKind(op) ==
  CASE op = "advancedSearch" -> "searchResult"
    [] op = "count" -> "count"
    [] op = "deleteDocument" -> "ids"
    [] op = "updateDocument" -> "KuzzleDocumentId"
    [] OTHER -> "KuzzleDocument"

\* C2: for an operation called with a callback, each answer leads to exactly
\* one invocation of the caller's callback: with the error alone, or with a
\* null error and the transformed result.
C2_OneOutcomePerAnswer ==
  \A u \in Callers :
    (calls[u].op \in CallbackOps /\ calls[u].cb # NoCb) =>
      \A i \in 1..Len(answered[u]) :
        LET a == answered[u][i]
        IN  /\ Len(a.invoked) = 1
            /\ a.invoked[1].cb = calls[u].cb
            /\ a.outcome = "error" =>
                 /\ a.invoked[1].nargs = 1
                 /\ a.invoked[1].error = Error
            /\ a.outcome = "result" =>
                 /\ a.invoked[1].nargs = 2
                 /\ a.invoked[1].error = Null
                 /\ a.invoked[1].result.kind = TransformedKind(calls[u].op)

\* fetchDocument, called with a callback, has been answered with an error.
C2_Witness ==
  \E u \in Callers :
    /\ calls[u].op = "fetchDocument"
    /\ calls[u].cb # NoCb
    /\ Len(answered[u]) = 1
    /\ answered[u][1].outcome = "error"
    /\ Len(answered[u][1].invoked) = 1

\* C3: two subscribe calls with the same collection, filters and
\* subscribe-to-self option, the first room ACTIVE when the second is made,
\* issue one network subscribe call in all.
C3_OneNetworkSubscribe ==
  \A j \in 1..Len(rooms) :
    rooms[j].sawActive =>
      Cardinality({n \in 1..Len(subscriptions) :
                     /\ subscriptions[n].collection = rooms[j].collection
                     /\ subscriptions[n].filters = rooms[j].filters
                     /\ subscriptions[n].subscribeToSelf = rooms[j].subscribeToSelf}) = 1

\* C4: every invocation an answer leads to is of the callback given to the
\* call that issued the request, and an answer to one caller's request leaves
\* the outcomes of the other callers as they were.
C4_AnswerToItsOwnCallback ==
  /\ [](\A u \in Callers : \A i \in 1..Len(answered[u]) :
          \A k \in 1..Len(answered[u][i].invoked) :
            answered[u][i].invoked[k].cb = calls[u].cb)
  /\ [][\A u \in Callers :
          Len(answered'[u]) > Len(answered[u]) =>
            \A v \in Callers \ {u} : answered'[v] = answered[v] /\ pending'[v] = pending[v]]_vars

\* Two calls with callbacks were in flight at once; the second caller's was
\* answered first, with an error, and the first caller's is still pending.
C4_Witness ==
  /\ calls["u1"].cb # NoCb
  /\ calls["u2"].cb # NoCb
  /\ Len(pending["u1"]) = 1
  /\ pending["u2"] = <<>>
  /\ Len(answered["u2"]) = 1
  /\ answered["u2"][1].outcome = "error"
  /\ calls["u1"].op = "updateDocument"

\* C5: createDocument, deleteDocument, replaceDocument and updateDocument
\* called without a callback, and publish always, make their one query with
\* no response callback, and their answer invokes nothing.
C5_FireAndForget ==
  \A u \in Callers :
    (calls[u].op = "publish" \/ (calls[u].op \in OptionalCallbackOps /\ calls[u].cb = NoCb)) =>
      /\ Len(pending[u]) + Len(answered[u]) = 1
      /\ \A i \in 1..Len(pending[u]) : pending[u][i].cb.kind = "none"
      /\ \A i \in 1..Len(answered[u]) :
           /\ answered[u][i].cb.kind = "none"
           /\ answered[u][i].invoked = <<>>

\* updateDocument, called without a callback, has been answered with an error.
C5_Witness ==
  \E u \in Callers :
    /\ calls[u].op = "updateDocument"
    /\ calls[u].cb = NoCb
    /\ Len(answered[u]) = 1
    /\ answered[u][1].outcome = "error"

\* C6: a collection's headers start as a copy, in an object of their own, of
\* the session's headers; no operation on a collection changes the session's
\* headers or another collection's, nor the collection's name and session.
C6_SessionUntouched ==
  /\ [](/\ kuzzle.headers = "kuzzle"
        /\ heap[kuzzle.headers] = SessionHeaders
        /\ \A c \in CollIds :
             built(c) => collections[c].collection = c /\ collections[c].kuzzle = "kuzzle")
  /\ [][\A c \in CollIds :
          (~built(c) /\ built(c)') =>
            /\ collections'[c].headers # kuzzle.headers
            /\ heap'[collections'[c].headers] = heap[kuzzle.headers]]_vars
  /\ [][\A c \in CollIds : \A d \in CollIds \ {c} :
          (built(c) /\ built(d) /\ heap'[collections'[c].headers] # headersOf(c)) =>
            heap'[collections'[d].headers] = headersOf(d)]_vars

\* Both collections are built, setHeaders has changed the headers of one,
\* the other's still equal the session's, and a request has been made.
C6_Witness ==
  /\ built("a")
  /\ built("b")
  /\ headersOf("a") = [h |-> "2", k |-> "1"]
  /\ headersOf("b") = SessionHeaders
  /\ calls["u1"] # Idle

\* C7: a Profile built with no content has rateLimit 0 and no policies;
\* getRoles with policies absent or empty makes no request and resolves with
\* an empty list, and otherwise makes one mGetRoles request with the roleId of
\* each policy, in the order of the policies.
C7_GetRoles ==
  /\ [][(~profile.built /\ profile'.built /\ profile'.content.isNull) =>
          /\ profile'.rateLimit = 0
          /\ profile'.policies = Given(<<>>)]_vars
  /\ [](returned.kind # "none" =>
          IF ~returned.found.defined \/ returned.found.value = <<>>
          THEN /\ mGetRoles = <<>>
               /\ returned.kind = "resolved([])"
          ELSE /\ Len(mGetRoles) = 1
               /\ Len(mGetRoles[1]) = Len(returned.found.value)
               /\ \A i \in 1..Len(mGetRoles[1]) :
                    mGetRoles[1][i] = returned.found.value[i].roleId
               /\ returned.kind = "mGetRoles")

\* A profile built with no content was given the policies r2, r1, and
\* getRoles made its request for them.
C7_Witness ==
  /\ profile.built
  /\ profile.content.isNull
  /\ profile.rateLimit = 0
  /\ returned.found = Given(<<[roleId |-> "r2"], [roleId |-> "r1"]>>)
  /\ mGetRoles = << <<"r2", "r1">> >>

====
